---- MODULE Spec2Model ----
(***************************************************************************)
(* The DiveMap component (components/map/DiveMap): the marker set it keeps *)
(* on a Google Maps surface for a list of dive logs, the selection         *)
(* highlight, and the viewport framing.                                    *)
(*                                                                         *)
(* One action per React effect run or SDK callback.  The SDK surface is    *)
(* the set of markers whose map property is set, the zoom, the viewport    *)
(* request that fitBounds left pending, and the bounds_changed listeners.  *)
(***************************************************************************)
EXTENDS Integers, Sequences, FiniteSets, TLC

\* ---------------------------------------------------------------- bounds
MaxCoord == 1
MaxLen == 2
MaxMarkers == 3

\* ------------------------------------------------------- program constants
MaxZoom == 15
InitialZoom == 6

\* ------------------------------------------------------------------ inputs
Ids == {"a", "b"}
NoId == "undefined"
Coords == 0..MaxCoord

\* Dive sites: the locations documents are stored with.
Sites == {[lat |-> c, lng |-> MaxCoord - c] : c \in Coords}

\* A DiveLog as far as the map reads it: id and location.
DiveLogs == {[id |-> i, lat |-> p.lat, lng |-> p.lng] : i \in Ids, p \in Sites}

RECURSIVE SeqsUpTo(_, _)
SeqsUpTo(S, n) ==
  IF n = 0 THEN {<<>>}
  ELSE LET shorter == SeqsUpTo(S, n - 1)
       IN shorter \cup {Append(s, x) : s \in {t \in shorter : Len(t) = n - 1}, x \in S}

\* The lists of ids a query of the collection, or HomePage's prepending of a
\* created dive to the loaded list, can hand to the map.
IdLists == SeqsUpTo(Ids, MaxLen)

\* The documents of the diveLogs collection: the location stored per id.
Collections == [Ids -> Sites]

IdsOf(logs) == {logs[i].id : i \in 1..Len(logs)}

\* ------------------------------------------------------------------- state
VARIABLES
  docs,             \* the diveLogs collection: id -> stored location
  mounted,          \* the component is in the tree
  initPc,           \* position of initMap: "start", "loading", "ready", "failed"
  isLoading,        \* useState isLoading
  error,            \* useState error: "" is null
  mapInstance,      \* mapInstanceRef.current is a map
  infoWindow,       \* infoWindowRef.current is an info window
  markersRef,       \* markersRef.current: id -> marker handle
  markers,          \* marker objects not yet garbage: handle -> marker
  nextHandle,       \* identity of the next marker object created
  diveLogs,         \* prop diveLogs
  selectedDiveId,   \* prop selectedDiveId
  zoom,             \* the map's zoom
  fitReq,           \* viewport that fitBounds asked for, not yet shown
  zoomListeners,    \* bounds_changed listeners registered and not removed
  issued,           \* surface commands issued by the last step
  lastOp,           \* the last step taken and what it did
  visual,           \* createMarkerContent: the dive's photos, the flag, the element built
  fsDocs,           \* Firestore diveLogs documents: id -> [userId, photos]
  blobs,            \* Storage objects under dive-photos/: the photo ids
  del,              \* the deleteDiveLog call: position, id, photos read, deletions in flight
  req,              \* the last write request the Firestore rules decided
  page,             \* HomePage: currentUser, its diveLogs (id -> userId), selectedDiveId
  sreq,             \* the last write request the Storage rules decided
  apiKey,           \* NEXT_PUBLIC_GOOGLE_MAPS_API_KEY is configured
  googleMapsPromise,\* lib/maps cache: 0 (null) or the number of the cached load
  loads,            \* the SDK loads started by loader.load(), each pending, ok or failed
  calls,            \* each caller of loadGoogleMaps: position and the load it got
  sidebarOpen,      \* HomePage state sidebarOpen
  info,             \* the info window: {} or the dive shown and the marker it is open on
  notified,         \* the onMarkerClick calls of the step
  firebaseUser,     \* the user the auth provider last reported, NoUser when signed out
  currentUser,      \* AuthProvider state currentUser: {} (null) or the User installed
  loading,          \* AuthProvider state loading
  handlers,         \* auth-state handlers waiting in getUser or createUser
  started,          \* number of handlers that reached their await
  userDocs,         \* uids with a document in the users collection
  showOnlyMyDives,  \* HomePage state showOnlyMyDives
  listLoads,        \* the loadDiveLogs runs in start order: query and pending, ok or failed
  sub               \* the form's handleSubmit: position, new id, user, uploads in flight and stored

\* The state of DiveMap and of its map surface.
mapVars == <<docs, mounted, initPc, isLoading, error, mapInstance, infoWindow,
             markersRef, markers, nextHandle, diveLogs, selectedDiveId,
             zoom, fitReq, zoomListeners, issued, lastOp>>

\* The state the marker content is checked on.
visualVars == <<visual>>

\* The document store, the blob store and the deleteDiveLog call.
storeVars == <<fsDocs, blobs, del>>

\* The Firestore rules' last decision and the page that sends requests.
rulesVars == <<req, page>>

\* The Storage rules' last decision.
storageVars == <<sreq>>

\* loadGoogleMaps and its callers.
loaderVars == <<apiKey, googleMapsPromise, loads, calls>>

\* What a marker click touches besides the map.
clickVars == <<sidebarOpen, info, notified>>

\* The list filter and the loads of the dive list.
listVars == <<showOnlyMyDives, listLoads>>

\* DiveLogForm's submission.
submitVars == <<sub>>

\* AuthProvider and the users collection.
authVars == <<firebaseUser, currentUser, loading, handlers, started, userDocs>>

\* What a step of AuthProvider leaves alone.
nonAuthVars == <<mapVars, visualVars, storeVars, rulesVars, storageVars, loaderVars, clickVars, listVars, submitVars>>

\* What a step of loadDiveLogs leaves alone (it sets the page's list).
nonListVars == <<mapVars, visualVars, storeVars, req, storageVars, loaderVars, clickVars,
                 authVars, submitVars>>

\* What a step of handleSubmit leaves alone (it writes both stores).
nonSubmitVars == <<mapVars, visualVars, del, rulesVars, storageVars, loaderVars, clickVars,
                   authVars, listVars>>

vars == <<mapVars, visualVars, storeVars, rulesVars, storageVars, loaderVars, clickVars, authVars, listVars, submitVars>>

\* What a step of DiveMap leaves alone.
nonMapVars == <<visualVars, storeVars, rulesVars, storageVars, loaderVars, clickVars, authVars, listVars, submitVars>>

\* What a call of createMarkerContent leaves alone.
nonVisualVars == <<mapVars, storeVars, rulesVars, storageVars, loaderVars, clickVars, authVars, listVars, submitVars>>

\* What a step of lib/firestore and lib/storage leaves alone.
nonStoreVars == <<mapVars, visualVars, rulesVars, storageVars, loaderVars, clickVars, authVars, listVars, submitVars>>

\* What a write request to diveLogs leaves alone.
nonRulesVars == <<mapVars, visualVars, blobs, del, storageVars, loaderVars, clickVars, authVars, listVars, submitVars>>

\* What a write request to Storage leaves alone.
nonStorageVars == <<mapVars, visualVars, storeVars, rulesVars, loaderVars, clickVars, authVars, listVars, submitVars>>

\* What a step of loadGoogleMaps leaves alone.
nonLoaderVars == <<mapVars, visualVars, storeVars, rulesVars, storageVars, clickVars, authVars, listVars, submitVars>>

\* What a marker click and the render after it leave alone.
nonClickVars == <<visualVars, storeVars, rulesVars, storageVars, loaderVars, authVars, listVars, submitVars>>

\* ----------------------------------------------------------- finite maps
EmptyMap == [k \in {} |-> 0]

Put(f, k, v) == [x \in DOMAIN f \cup {k} |-> IF x = k THEN v ELSE f[x]]

Restrict(f, S) == [x \in DOMAIN f \cap S |-> f[x]]

Range(f) == {f[x] : x \in DOMAIN f}

NoCommands == [pan |-> <<>>, fit |-> <<>>, setZoom |-> <<>>]

Op(kind, created) == [kind |-> kind, created |-> created]

\* Markers that are attached to the map surface (marker.map is the map).
Surface == {h \in DOMAIN markers : markers[h].map}

\* Markers tracked in markersRef.current.
Live == {markersRef[id] : id \in DOMAIN markersRef}

\* convertFirestoreDiveLog over a query result: the DiveLog of each id.
LogsOf(ids) ==
  [i \in 1..Len(ids) |-> [id |-> ids[i], lat |-> docs[ids[i]].lat, lng |-> docs[ids[i]].lng]]

\* DiveMap after its first render, before its effects have run.
MapStart ==
  /\ docs \in Collections
  /\ mounted = TRUE
  /\ initPc = "start"
  /\ isLoading = TRUE
  /\ error = ""
  /\ mapInstance = FALSE
  /\ infoWindow = FALSE
  /\ markersRef = EmptyMap
  /\ markers = EmptyMap
  /\ nextHandle = 1
  /\ diveLogs = <<>>
  /\ selectedDiveId = NoId
  /\ zoom = InitialZoom
  /\ fitReq = {}
  /\ zoomListeners = 0
  /\ issued = NoCommands
  /\ lastOp = Op("mount", 0)

\* DiveMap left out of a specification: mounted, untouched.
MapIdle == MapStart /\ docs = [id \in Ids |-> [lat |-> 0, lng |-> MaxCoord]]

NoVisual == [photos |-> <<>>, isSelected |-> FALSE, content |-> {}]

VisualIdle == visual = NoVisual

\* ------------------------------------------------------------ the stores
MaxDocPhotos == 2

Users == {"u1", "u2"}

\* DivePhoto.id of the k-th photo of a dive: its path under dive-photos/.
PhotoId(id, k) == <<id, k>>

PhotoIdsOf(id, n) == {PhotoId(id, k) : k \in 1..n}

\* Collections as createDiveLog leaves them: each document with its owner
\* and the photos uploaded for it, every photo an object of the blob store.
StoredDocs ==
  UNION {[D -> {[userId |-> u, n |-> n] : u \in Users, n \in 0..MaxDocPhotos}] :
           D \in SUBSET Ids}

DocsOf(stored) ==
  [id \in DOMAIN stored |->
     [userId |-> stored[id].userId, photos |-> PhotoIdsOf(id, stored[id].n)]]

AllPhotos(d) == UNION {d[id].photos : id \in DOMAIN d}

\* faulted: a store operation of the call hit a fault; retryOf: the id of
\* the failed call this call follows, if any.
NoCall == [pc |-> "idle", id |-> NoId, photos |-> {}, pending |-> {}, failed |-> FALSE,
           faulted |-> FALSE, retryOf |-> NoId]

StoreIdle ==
  /\ fsDocs = EmptyMap
  /\ blobs = {}
  /\ del = NoCall

StoreStart ==
  /\ \E stored \in StoredDocs : fsDocs = DocsOf(stored)
  /\ blobs = AllPhotos(fsDocs)
  /\ del = NoCall

\* request.auth == null, currentUser == null.
NoUser == "null"

NoRequest == [op |-> "none", auth |-> NoUser, id |-> NoId, userId |-> NoUser, permitted |-> FALSE]

NoPage == [currentUser |-> NoUser, diveLogs |-> EmptyMap, selectedDiveId |-> NoId]

RulesIdle ==
  /\ req = NoRequest
  /\ page = NoPage

\* request.resource of a delete: null.
NoResource == {}

NoWrite == [folder |-> "none", userId |-> NoUser, auth |-> NoUser,
            resource |-> NoResource, permitted |-> FALSE]

StorageIdle == sreq = NoWrite

Callers == {"c1", "c2", "c3"}

NotCalled == [pc |-> "idle", load |-> 0]

LoaderStart ==
  /\ apiKey \in BOOLEAN
  /\ googleMapsPromise = 0
  /\ loads = <<>>
  /\ calls = [c \in Callers |-> NotCalled]

LoaderIdle == LoaderStart /\ apiKey

AuthStart ==
  /\ firebaseUser = NoUser
  /\ currentUser = {}
  /\ loading = TRUE
  /\ handlers = {}
  /\ started = 0
  /\ userDocs \in SUBSET Users

AuthIdle == AuthStart /\ userDocs = {}

ListIdle ==
  /\ showOnlyMyDives = FALSE
  /\ listLoads = <<>>

NoSubmit == [pc |-> "idle", id |-> NoId, userId |-> NoUser, pending |-> {}, photos |-> {},
             failed |-> FALSE]

SubmitIdle == sub = NoSubmit

ClickIdle ==
  /\ sidebarOpen = FALSE
  /\ info = {}
  /\ notified = <<>>

Init == MapStart /\ VisualIdle /\ StoreIdle /\ RulesIdle /\ StorageIdle /\ LoaderIdle /\ ClickIdle /\ AuthIdle /\ ListIdle /\ SubmitIdle

\* ------------------------------------------------------------- lib/maps
\* google.maps.LatLngBounds.extend: the smallest box holding the old box
\* and the point.  An empty LatLngBounds is {}, a box is {b}.
Extend(bounds, pos) ==
  IF bounds = {}
  THEN {[south |-> pos.lat, north |-> pos.lat, west |-> pos.lng, east |-> pos.lng]}
  ELSE {[south |-> IF pos.lat < b.south THEN pos.lat ELSE b.south,
         north |-> IF pos.lat > b.north THEN pos.lat ELSE b.north,
         west  |-> IF pos.lng < b.west THEN pos.lng ELSE b.west,
         east  |-> IF pos.lng > b.east THEN pos.lng ELSE b.east] : b \in bounds}

RECURSIVE ExtendAll(_, _)
ExtendAll(bounds, positions) ==
  IF positions = <<>> THEN bounds
  ELSE ExtendAll(Extend(bounds, Head(positions)), Tail(positions))

\* createBounds: null ({}) for no position, else the box of all of them.
createBounds(positions) ==
  IF Len(positions) = 0 THEN {} ELSE ExtendAll({}, positions)

Contains(b, pos) ==
  /\ b.south <= pos.lat /\ pos.lat <= b.north
  /\ b.west <= pos.lng /\ pos.lng <= b.east

Location(diveLog) == [lat |-> diveLog.lat, lng |-> diveLog.lng]

Locations(logs) == [i \in 1..Len(logs) |-> Location(logs[i])]

\* ------------------------------------------------------------ createMarker
\* createMarker with the guard inverted.
createMarker_InvertedGuard(diveLog, hasMap) ==
  IF hasMap THEN {}
  ELSE {[rec |-> diveLog, map |-> TRUE, selected |-> FALSE]}

\* createMarker: null ({}) without a map, else a marker attached to the map
\* with the unselected content.
createMarker(diveLog, hasMap) ==
  IF ~hasMap THEN {}
  ELSE {[rec |-> diveLog, map |-> TRUE, selected |-> FALSE]}

\* ------------------------------------------------- marker update effect
\* ClearMarkers without "markersRef.current = {}".
ClearMarkers_KeepRef(st) ==
  [st EXCEPT !.ms = [h \in DOMAIN st.ms |->
                       IF h \in Range(st.ref)
                       THEN [st.ms[h] EXCEPT !.map = FALSE] ELSE st.ms[h]]]

\* ClearMarkers without "marker.map = null".
ClearMarkers_NoDetach(st) == [st EXCEPT !.ref = EmptyMap]

\* "Clear existing markers": detach every tracked marker, forget them all.
ClearMarkers(st) ==
  [st EXCEPT !.ms = [h \in DOMAIN st.ms |->
                       IF h \in Range(st.ref)
                       THEN [st.ms[h] EXCEPT !.map = FALSE] ELSE st.ms[h]],
             !.ref = EmptyMap]

\* "Create new markers": one createMarker per element of the list, stored
\* under the element's id.
RECURSIVE CreateMarkers(_, _, _)
CreateMarkers(logs, st, hasMap) ==
  IF logs = <<>> THEN st
  ELSE LET made == createMarker(Head(logs), hasMap)
           next == IF made = {} THEN st
                   ELSE [ref |-> Put(st.ref, Head(logs).id, st.next),
                         ms |-> Put(st.ms, st.next, CHOOSE m \in made : TRUE),
                         next |-> st.next + 1]
       IN CreateMarkers(Tail(logs), next, hasMap)

\* A marker that is neither tracked nor attached is garbage.
Collect(st) ==
  [st EXCEPT !.ms = Restrict(st.ms, {h \in DOMAIN st.ms :
                                       st.ms[h].map \/ h \in Range(st.ref)})]

\* UpdateMarkers without the clearing pass.
UpdateMarkers_NoClear(logs, st, hasMap) ==
  Collect(CreateMarkers(logs, st, hasMap))

UpdateMarkers(logs, st, hasMap) ==
  Collect(CreateMarkers(logs, ClearMarkers(st), hasMap))

\* "Fit map to show all markers": the bounds handed to fitBounds, {} if none.
FitRequest(logs) ==
  IF Len(logs) > 0 THEN createBounds(Locations(logs)) ELSE {}

\* ZoomListener without the clamp.
ZoomListener_NoClamp(z) == z

\* The bounds_changed listener: "Set a maximum zoom level".
ZoomListener(z) == IF z > MaxZoom THEN MaxZoom ELSE z

\* --------------------------------------------------------- selection effect
\* HighlightMarkers that styles the selected marker and resets no other.
HighlightMarkers_NoReset(ms, ref, sel) ==
  [h \in DOMAIN ms |->
     IF h \in Range(ref)
     THEN [ms[h] EXCEPT !.selected =
             ms[h].selected \/ (\E id \in DOMAIN ref : ref[id] = h /\ id = sel)]
     ELSE ms[h]]

\* HighlightMarkers that returns early when the selected id has no marker.
HighlightMarkers_SkipAbsent(ms, ref, sel) ==
  IF sel \notin DOMAIN ref THEN ms
  ELSE [h \in DOMAIN ms |->
          IF h \in Range(ref)
          THEN [ms[h] EXCEPT !.selected = (\E id \in DOMAIN ref : ref[id] = h /\ id = sel)]
          ELSE ms[h]]

\* "Reset all markers first": every tracked marker gets the content for
\* isSelected = (id === selectedDiveId).
HighlightMarkers(ms, ref, sel) ==
  [h \in DOMAIN ms |->
     IF h \in Range(ref)
     THEN [ms[h] EXCEPT !.selected = (\E id \in DOMAIN ref : ref[id] = h /\ id = sel)]
     ELSE ms[h]]

\* PanCommands that never pans.
PanCommands_None(ms, ref, sel, hasMap) == <<>>

\* "Center map on selected marker": the panTo calls of the effect.
PanCommands(ms, ref, sel, hasMap) ==
  IF sel # NoId /\ sel \in DOMAIN ref /\ hasMap
  THEN <<Location(ms[ref[sel]].rec)>>
  ELSE <<>>

\* ------------------------------------------------------------ the SDK
\* Zoom levels fitBounds may settle on: the deepest one for a single point,
\* otherwise one that depends on the size of the container.
SdkZooms == {14, 15, 16, 22}

FitZooms(b) ==
  IF b.south = b.north /\ b.west = b.east THEN {22} ELSE SdkZooms \ {22}

\* ----------------------------------------------------------------- actions
Refs == [ref |-> markersRef, ms |-> markers, next |-> nextHandle]

\* initMap up to its await: the container check.
InitMapStart(hasContainer) ==
  /\ mounted /\ initPc = "start"
  /\ IF hasContainer
     THEN /\ initPc' = "loading"
          /\ UNCHANGED <<isLoading, error>>
     ELSE /\ initPc' = "failed"
          /\ error' = "Map container not found. Please refresh the page."
          /\ isLoading' = FALSE
  /\ issued' = NoCommands
  /\ lastOp' = Op("initMapStart", 0)
  /\ UNCHANGED nonMapVars
  /\ UNCHANGED <<docs, mounted, mapInstance, infoWindow, markersRef, markers,
                 nextHandle, diveLogs, selectedDiveId, zoom, fitReq, zoomListeners>>

\* initMap after loadGoogleMaps settled, with the re-render that
\* setIsLoading(false) causes: diveLogs and createMarker are the ones of the
\* last render, so no effect runs again.  After an unmount mapRef.current is
\* null, reading offsetWidth throws into the catch (console.error, setError),
\* and the state setters of an unmounted component change nothing.
InitMapResume(outcome) ==
  /\ initPc = "loading"
  /\ IF outcome = "loaded" /\ mounted
     THEN /\ mapInstance' = TRUE
          /\ infoWindow' = TRUE
          /\ zoom' = InitialZoom
          /\ initPc' = "ready"
          /\ isLoading' = FALSE
          /\ error' = error
     ELSE /\ initPc' = "failed"
          /\ error' = IF mounted THEN "Failed to load map" ELSE error
          /\ isLoading' = IF mounted THEN FALSE ELSE isLoading
          /\ UNCHANGED <<mapInstance, infoWindow, zoom>>
  /\ issued' = NoCommands
  /\ lastOp' = Op(IF outcome = "loaded" /\ mounted THEN "initMapResume" ELSE "initMapCatch", 0)
  /\ UNCHANGED nonMapVars
  /\ UNCHANGED <<docs, mounted, markersRef, markers, nextHandle, diveLogs,
                 selectedDiveId, fitReq, zoomListeners>>

\* MarkerEffect without the "if (!mapInstanceRef.current) return" guard.
MarkerEffect_NoGuard(logs, st) ==
  [st |-> UpdateMarkers(logs, st, mapInstance), fit |-> FitRequest(logs)]

\* The marker update effect on the list logs, from the refs st.
MarkerEffect(logs, st) ==
  IF ~mapInstance THEN [st |-> st, fit |-> {}]
  ELSE [st |-> UpdateMarkers(logs, st, mapInstance), fit |-> FitRequest(logs)]

\* A render with a new diveLogs (or a new createMarker) and the same
\* selectedDiveId: only the marker update effect runs.
Reconcile(logs) ==
  /\ mounted /\ initPc # "start"
  /\ nextHandle + Len(logs) <= MaxMarkers + 1
  /\ LET r == MarkerEffect(logs, Refs) IN
       /\ markersRef' = r.st.ref
       /\ markers' = r.st.ms
       /\ nextHandle' = r.st.next
       /\ fitReq' = IF r.fit = {} THEN fitReq ELSE r.fit
       /\ zoomListeners' = IF r.fit = {} THEN zoomListeners ELSE zoomListeners + 1
       /\ issued' = [NoCommands EXCEPT !.fit = IF r.fit = {} THEN <<>>
                                                ELSE <<CHOOSE b \in r.fit : TRUE>>]
       /\ lastOp' = Op("reconcile", r.st.next - nextHandle)
       /\ UNCHANGED nonMapVars
  /\ diveLogs' = logs
  /\ UNCHANGED <<docs, mounted, initPc, isLoading, error, mapInstance, infoWindow,
                 selectedDiveId, zoom>>

\* A render with a new selectedDiveId only: the selection effect runs.
SetSelected(id) ==
  /\ mounted /\ initPc # "start"
  /\ id # selectedDiveId
  /\ selectedDiveId' = id
  /\ markers' = HighlightMarkers(markers, markersRef, id)
  /\ issued' = [NoCommands EXCEPT !.pan = PanCommands(markers, markersRef, id, mapInstance)]
  /\ lastOp' = Op("setSelected", 0)
  /\ UNCHANGED nonMapVars
  /\ UNCHANGED <<docs, mounted, initPc, isLoading, error, mapInstance, infoWindow,
                 markersRef, nextHandle, diveLogs, zoom, fitReq, zoomListeners>>

\* A render in which both change: the marker update effect, then the
\* selection effect, in the order the component declares them.
RenderBoth(logs, id) ==
  /\ mounted /\ initPc # "start"
  /\ id # selectedDiveId
  /\ nextHandle + Len(logs) <= MaxMarkers + 1
  /\ LET r == MarkerEffect(logs, Refs) IN
       /\ markersRef' = r.st.ref
       /\ markers' = HighlightMarkers(r.st.ms, r.st.ref, id)
       /\ nextHandle' = r.st.next
       /\ fitReq' = IF r.fit = {} THEN fitReq ELSE r.fit
       /\ zoomListeners' = IF r.fit = {} THEN zoomListeners ELSE zoomListeners + 1
       /\ issued' = [pan |-> PanCommands(r.st.ms, r.st.ref, id, mapInstance),
                     fit |-> IF r.fit = {} THEN <<>> ELSE <<CHOOSE b \in r.fit : TRUE>>,
                     setZoom |-> <<>>]
       /\ lastOp' = Op("renderBoth", r.st.next - nextHandle)
       /\ UNCHANGED nonMapVars
  /\ diveLogs' = logs
  /\ selectedDiveId' = id
  /\ UNCHANGED <<docs, mounted, initPc, isLoading, error, mapInstance, infoWindow, zoom>>

\* The SDK shows the viewport fitBounds asked for and fires bounds_changed:
\* every registered listener runs once and removes itself.
BoundsChanged ==
  /\ fitReq # {}
  /\ \E b \in fitReq : \E z \in FitZooms(b) :
       LET after == IF zoomListeners > 0 THEN ZoomListener(z) ELSE z IN
         /\ zoom' = after
         /\ issued' = [NoCommands EXCEPT !.setZoom = IF after # z THEN <<after>> ELSE <<>>]
  /\ fitReq' = {}
  /\ zoomListeners' = 0
  /\ lastOp' = Op("boundsChanged", 0)
  /\ UNCHANGED nonMapVars
  /\ UNCHANGED <<docs, mounted, initPc, isLoading, error, mapInstance, infoWindow,
                 markersRef, markers, nextHandle, diveLogs, selectedDiveId>>

\* The component leaves the tree.  No effect of DiveMap returns a cleanup
\* function, so nothing else happens.
Unmount ==
  /\ mounted
  /\ mounted' = FALSE
  /\ issued' = NoCommands
  /\ lastOp' = Op("unmount", 0)
  /\ UNCHANGED nonMapVars
  /\ UNCHANGED <<docs, initPc, isLoading, error, mapInstance, infoWindow, markersRef,
                 markers, nextHandle, diveLogs, selectedDiveId, zoom, fitReq,
                 zoomListeners>>

\* The "Reload Page" button of the error overlay: window.location.reload().
ReloadPage ==
  /\ mounted /\ error # ""
  /\ docs' = docs
  /\ mounted' = TRUE
  /\ initPc' = "start"
  /\ isLoading' = TRUE
  /\ error' = ""
  /\ mapInstance' = FALSE
  /\ infoWindow' = FALSE
  /\ markersRef' = EmptyMap
  /\ markers' = EmptyMap
  /\ nextHandle' = 1
  /\ diveLogs' = <<>>
  /\ selectedDiveId' = NoId
  /\ zoom' = InitialZoom
  /\ fitReq' = {}
  /\ zoomListeners' = 0
  /\ issued' = NoCommands
  /\ lastOp' = Op("reload", 0)
  /\ UNCHANGED nonMapVars

Next ==
  \/ \E c \in BOOLEAN : InitMapStart(c)
  \/ \E o \in {"loaded", "rejected", "no_api_key"} : InitMapResume(o)
  \/ \E ids \in IdLists : Reconcile(LogsOf(ids))
  \/ \E id \in Ids \cup {NoId} : SetSelected(id)
  \/ \E ids \in IdLists : \E id \in Ids \cup {NoId} : RenderBoth(LogsOf(ids), id)
  \/ BoundsChanged
  \/ Unmount
  \/ ReloadPage

Spec == Init /\ [][Next]_vars

TypeOK ==
  /\ mounted \in BOOLEAN
  /\ initPc \in {"start", "loading", "ready", "failed"}
  /\ DOMAIN markersRef \subseteq Ids
  /\ Range(markersRef) \subseteq DOMAIN markers
  /\ nextHandle \in 1..(MaxMarkers + 1)
  /\ docs \in Collections
  /\ diveLogs \in {LogsOf(ids) : ids \in IdLists}
  /\ selectedDiveId \in Ids \cup {NoId}
  /\ Cardinality(fitReq) <= 1

\* ------------------------------------------------- createMarkerContent
MaxPhotos == 3

SelectedSize == 60
UnselectedSize == 50

Urls == {"p1", "p2", "p3"}

\* diveLog.photos as far as the marker reads it: the urls, in order.
PhotoLists == SeqsUpTo(Urls, MaxPhotos)

\* createMarkerContent with the badge shown from the first photo on.
createMarkerContent_BadgeFromOne(photos, isSelected) ==
  [size        |-> IF isSelected THEN SelectedSize ELSE UnselectedSize,
   borderWidth |-> IF isSelected THEN 4 ELSE 3,
   borderColor |-> IF isSelected THEN "#EF4444" ELSE "#FFFFFF",
   ring        |-> isSelected,
   img         |-> IF Len(photos) > 0 THEN <<photos[1]>> ELSE <<>>,
   badge       |-> IF Len(photos) > 0 THEN <<Len(photos)>> ELSE <<>>,
   icon        |-> ~(Len(photos) > 0)]

\* createMarkerContent: the container element, by its style and children.
\* ring is the second box-shadow, img the thumbnail's src, badge the text
\* of the count badge, icon the default svg on the gradient background.
createMarkerContent(photos, isSelected) ==
  [size        |-> IF isSelected THEN SelectedSize ELSE UnselectedSize,
   borderWidth |-> IF isSelected THEN 4 ELSE 3,
   borderColor |-> IF isSelected THEN "#EF4444" ELSE "#FFFFFF",
   ring        |-> isSelected,
   img         |-> IF Len(photos) > 0 THEN <<photos[1]>> ELSE <<>>,
   badge       |-> IF Len(photos) > 0 /\ Len(photos) > 1 THEN <<Len(photos)>> ELSE <<>>,
   icon        |-> ~(Len(photos) > 0)]

\* A dive log with some photos, no content built yet.
VisualStart ==
  /\ visual \in [photos : PhotoLists, isSelected : {FALSE}, content : {{}}]

\* A call of createMarkerContent: by createMarker with false, by the
\* selection effect (updateContent) with either flag.
CreateContent(isSelected) ==
  /\ visual' = [visual EXCEPT !.isSelected = isSelected,
                              !.content = {createMarkerContent(visual.photos, isSelected)}]
  /\ UNCHANGED nonVisualVars

InitVisual == MapIdle /\ VisualStart /\ StoreIdle /\ RulesIdle /\ StorageIdle /\ LoaderIdle /\ ClickIdle /\ AuthIdle /\ ListIdle /\ SubmitIdle

NextVisual == \E f \in BOOLEAN : CreateContent(f)

SpecVisual == InitVisual /\ [][NextVisual]_vars

\* --------------------------------------------------------- deleteDiveLog
\* deleteDiveLog that deletes no photo.
PhotosToDelete_None(id) == {}

\* The photos deleteDiveLog deletes: those of the document getDiveLog read,
\* none when there is no document.
PhotosToDelete(id) ==
  IF id \in DOMAIN fsDocs THEN fsDocs[id].photos ELSE {}

\* deleteDiveLog(id) is called; no call is running.
DeleteDiveLog(id) ==
  /\ del.pc \in {"idle", "done", "failed"} /\ del.pending = {}
  /\ del' = [NoCall EXCEPT !.pc = "read", !.id = id,
                           !.retryOf = IF del.pc = "failed" THEN del.id ELSE NoId]
  /\ UNCHANGED <<fsDocs, blobs>>
  /\ UNCHANGED nonStoreVars

\* getDiveLog(id) settles: on success every photo's deletePhoto is started,
\* or with no photo the call goes on to deleteDoc; a failure is rethrown.
GetDiveLog(ok) ==
  /\ del.pc = "read"
  /\ del' = IF ~ok THEN [del EXCEPT !.pc = "failed", !.failed = TRUE, !.faulted = TRUE]
            ELSE LET ph == PhotosToDelete(del.id) IN
                   IF ph # {} THEN [del EXCEPT !.pc = "photos", !.photos = ph, !.pending = ph]
                   ELSE [del EXCEPT !.pc = "doc"]
  /\ UNCHANGED <<fsDocs, blobs>>
  /\ UNCHANGED nonStoreVars

\* One deletePhoto settles.  deleteObject succeeds on an existing object
\* when the store has no fault.  The first failure rejects Promise.all and
\* the call; the deletions still in flight go on.  When the last one has
\* succeeded the call goes on to deleteDoc.
DeletePhoto(p, fault) ==
  /\ p \in del.pending
  /\ LET ok == p \in blobs /\ ~fault
         left == del.pending \ {p}
     IN /\ blobs' = IF ok THEN blobs \ {p} ELSE blobs
        /\ del' = [del EXCEPT !.pending = left,
                              !.failed = del.failed \/ ~ok,
                              !.faulted = del.faulted \/ fault,
                              !.pc = IF ~ok THEN "failed"
                                     ELSE IF left = {} /\ ~del.failed THEN "doc"
                                     ELSE del.pc]
  /\ UNCHANGED fsDocs
  /\ UNCHANGED nonStoreVars

\* deleteDoc settles.
DeleteDoc(ok) ==
  /\ del.pc = "doc"
  /\ IF ok
     THEN /\ fsDocs' = Restrict(fsDocs, DOMAIN fsDocs \ {del.id})
          /\ del' = [del EXCEPT !.pc = "done"]
     ELSE /\ fsDocs' = fsDocs
          /\ del' = [del EXCEPT !.pc = "failed", !.failed = TRUE, !.faulted = TRUE]
  /\ UNCHANGED blobs
  /\ UNCHANGED nonStoreVars

InitDelete == MapIdle /\ VisualIdle /\ StoreStart /\ RulesIdle /\ StorageIdle /\ LoaderIdle /\ ClickIdle /\ AuthIdle /\ ListIdle /\ SubmitIdle

NextDelete ==
  \/ \E id \in Ids : DeleteDiveLog(id)
  \/ \E ok \in BOOLEAN : GetDiveLog(ok)
  \/ \E p \in del.pending : \E fault \in BOOLEAN : DeletePhoto(p, fault)
  \/ \E ok \in BOOLEAN : DeleteDoc(ok)

SpecDelete == InitDelete /\ [][NextDelete]_vars

\* ------------------------------------------------------- firestore.rules
\* resource: the stored document, if any.
Resource(id) == IF id \in DOMAIN fsDocs THEN {fsDocs[id]} ELSE {}

\* allow create: if request.auth != null &&
\*               request.auth.uid == request.resource.data.userId
AllowCreate(auth, userId) ==
  auth # NoUser /\ auth = userId

\* A rule that lets any signed-in user update or delete.
AllowUpdateDelete_AnyAuth(auth, resource) ==
  auth # NoUser /\ resource # {}

\* allow update, delete: if request.auth != null &&
\*                       request.auth.uid == resource.data.userId
\* With no stored document resource.data does not evaluate and the rule denies.
AllowUpdateDelete(auth, resource) ==
  auth # NoUser /\ \E d \in resource : auth = d.userId

\* The effect of a delete request on the collection.
Deleted(auth, id) ==
  IF AllowUpdateDelete(auth, Resource(id))
  THEN Restrict(fsDocs, DOMAIN fsDocs \ {id}) ELSE fsDocs

\* A create request for a new document with the given userId.
RulesCreate(auth, id, userId) ==
  /\ id \notin DOMAIN fsDocs
  /\ LET ok == AllowCreate(auth, userId) IN
       /\ fsDocs' = IF ok THEN Put(fsDocs, id, [userId |-> userId, photos |-> {}]) ELSE fsDocs
       /\ req' = [op |-> "create", auth |-> auth, id |-> id, userId |-> userId, permitted |-> ok]
  /\ UNCHANGED page
  /\ UNCHANGED nonRulesVars

\* An update request writing userId into the document; the rule reads only
\* the stored document.
RulesUpdate(auth, id, userId) ==
  /\ LET ok == AllowUpdateDelete(auth, Resource(id)) IN
       /\ fsDocs' = IF ok THEN [fsDocs EXCEPT ![id].userId = userId] ELSE fsDocs
       /\ req' = [op |-> "update", auth |-> auth, id |-> id, userId |-> userId, permitted |-> ok]
  /\ UNCHANGED page
  /\ UNCHANGED nonRulesVars

\* A delete request from any client.
RulesDelete(auth, id) ==
  /\ fsDocs' = Deleted(auth, id)
  /\ req' = [op |-> "delete", auth |-> auth, id |-> id, userId |-> NoUser,
             permitted |-> AllowUpdateDelete(auth, Resource(id))]
  /\ UNCHANGED page
  /\ UNCHANGED nonRulesVars

\* ------------------------------------------------- HomePage delete button
\* selectedDive && currentUser && selectedDive.userId === currentUser.uid
DeleteOffered ==
  /\ page.selectedDiveId \in DOMAIN page.diveLogs
  /\ page.currentUser # NoUser
  /\ page.diveLogs[page.selectedDiveId] = page.currentUser

\* AuthContext reports a sign-in or a sign-out.
PageAuth(u) ==
  /\ page.currentUser # u
  /\ page' = [page EXCEPT !.currentUser = u]
  /\ UNCHANGED <<fsDocs, req>>
  /\ UNCHANGED nonRulesVars

\* loadDiveLogs: the page's list becomes the collection as read.
PageLoad ==
  /\ page' = [page EXCEPT !.diveLogs = [id \in DOMAIN fsDocs |-> fsDocs[id].userId]]
  /\ UNCHANGED <<fsDocs, req>>
  /\ UNCHANGED nonRulesVars

\* A dive is selected, or the details panel is closed.
PageSelect(id) ==
  /\ id \in DOMAIN page.diveLogs \cup {NoId}
  /\ page' = [page EXCEPT !.selectedDiveId = id]
  /\ UNCHANGED <<fsDocs, req>>
  /\ UNCHANGED nonRulesVars

\* The delete button is pressed and confirmed: handleDeleteDive sends the
\* delete as the current user; on success the dive leaves the page's list and
\* the selection is cleared.  (The photo deletions of deleteDiveLog are steps
\* of SpecDelete.)
PageDelete ==
  /\ DeleteOffered
  /\ LET id == page.selectedDiveId
         ok == AllowUpdateDelete(page.currentUser, Resource(id))
     IN /\ fsDocs' = Deleted(page.currentUser, id)
        /\ req' = [op |-> "delete", auth |-> page.currentUser, id |-> id,
                   userId |-> NoUser, permitted |-> ok]
        /\ page' = IF ok
                   THEN [page EXCEPT !.diveLogs = Restrict(@, DOMAIN @ \ {id}),
                                     !.selectedDiveId = NoId]
                   ELSE page
  /\ UNCHANGED nonRulesVars

InitRules == MapIdle /\ VisualIdle /\ StoreIdle /\ RulesIdle /\ StorageIdle /\ LoaderIdle /\ ClickIdle /\ AuthIdle /\ ListIdle /\ SubmitIdle

NextRules ==
  \/ \E auth \in Users \cup {NoUser}, id \in Ids, u \in Users : RulesCreate(auth, id, u)
  \/ \E auth \in Users \cup {NoUser}, id \in Ids, u \in Users : RulesUpdate(auth, id, u)
  \/ \E auth \in Users \cup {NoUser}, id \in Ids : RulesDelete(auth, id)
  \/ \E u \in Users \cup {NoUser} : PageAuth(u)
  \/ PageLoad
  \/ \E id \in Ids \cup {NoId} : PageSelect(id)
  \/ PageDelete

SpecRules == InitRules /\ [][NextRules]_vars

\* --------------------------------------------------------- storage.rules
SizeLimit == 10 * 1024 * 1024

Folders == {"dive-photos", "profile-photos"}

\* Upload sizes in bytes, on both sides of the limit.
Sizes == {1, SizeLimit - 1, SizeLimit, 2 * SizeLimit}

\* Content types as <<type, subtype>>.
ContentTypes == {<<"image", "png">>, <<"image", "jpeg">>,
                 <<"application", "pdf">>, <<"text", "html">>}

\* request.resource of an upload; a delete has none.
Resources == {{[size |-> n, contentType |-> t]} : n \in Sizes, t \in ContentTypes}
               \cup {NoResource}

\* contentType.matches('image/.*')
MatchesImage(t) == t[1] = "image"

\* isValidImageUpload(); with no request.resource it does not evaluate and
\* the rule that calls it denies.
isValidImageUpload(resource) ==
  \E f \in resource : f.size < SizeLimit /\ MatchesImage(f.contentType)

\* allow read, write: if request.auth != null && request.auth.uid == userId
\* (the first rule of dive-photos and of profile-photos)
OwnerWrite(auth, userId) ==
  auth # NoUser /\ auth = userId

\* allow write: if request.auth != null && request.auth.uid == userId
\*              && isValidImageUpload()   (the rules under "Enhanced rules")
ValidatedWrite(auth, userId, resource) ==
  auth # NoUser /\ auth = userId /\ isValidImageUpload(resource)

\* A write is permitted when any allow of any match block of its path grants it.
WritePermitted(auth, userId, resource) ==
  OwnerWrite(auth, userId) \/ ValidatedWrite(auth, userId, resource)

\* A client sends a write (an upload, or a delete with no resource) to
\* folder/userId/...; the rules decide.
StorageWrite(folder, userId, auth, resource) ==
  /\ sreq' = [folder |-> folder, userId |-> userId, auth |-> auth, resource |-> resource,
              permitted |-> WritePermitted(auth, userId, resource)]
  /\ UNCHANGED nonStorageVars

InitStorage == MapIdle /\ VisualIdle /\ StoreIdle /\ RulesIdle /\ StorageIdle /\ LoaderIdle /\ ClickIdle /\ AuthIdle /\ ListIdle /\ SubmitIdle

NextStorage ==
  \E folder \in Folders, userId \in Users, auth \in Users \cup {NoUser},
     resource \in Resources : StorageWrite(folder, userId, auth, resource)

SpecStorage == InitStorage /\ [][NextStorage]_vars

\* -------------------------------------------------------- loadGoogleMaps
MaxLoads == 3

\* A loadGoogleMaps that never finds a cached promise.
Cached_Never(promise) == FALSE

\* if (googleMapsPromise)
Cached(promise) == promise # 0

\* loadGoogleMaps() is called by c, which is not waiting in an earlier call.
\* With a cached promise the caller gets that load: its outcome at once when
\* settled, else when it settles.  With no cached promise and no key the call
\* throws.  Otherwise loader.load() starts a load, which is cached and awaited.
LoadGoogleMaps(c) ==
  /\ calls[c].pc # "waiting"
  /\ IF Cached(googleMapsPromise)
     THEN /\ calls' = [calls EXCEPT ![c] =
                        [pc |-> IF loads[googleMapsPromise] = "pending" THEN "waiting"
                                ELSE loads[googleMapsPromise],
                         load |-> googleMapsPromise]]
          /\ UNCHANGED <<googleMapsPromise, loads>>
     ELSE IF ~apiKey
     THEN /\ calls' = [calls EXCEPT ![c] = [pc |-> "failed", load |-> 0]]
          /\ UNCHANGED <<googleMapsPromise, loads>>
     ELSE /\ Len(loads) < MaxLoads
          /\ loads' = Append(loads, "pending")
          /\ googleMapsPromise' = Len(loads) + 1
          /\ calls' = [calls EXCEPT ![c] = [pc |-> "waiting", load |-> Len(loads) + 1]]
  /\ UNCHANGED apiKey
  /\ UNCHANGED nonLoaderVars

\* Load l settles.  Every caller awaiting it gets the outcome.  On failure
\* the catch of the call that started it, the first reaction registered on
\* the promise, sets googleMapsPromise to null before any other caller runs.
LoadSettles(l, ok) ==
  /\ l \in DOMAIN loads /\ loads[l] = "pending"
  /\ loads' = [loads EXCEPT ![l] = IF ok THEN "ok" ELSE "failed"]
  /\ calls' = [c \in Callers |->
                IF calls[c].pc = "waiting" /\ calls[c].load = l
                THEN [calls[c] EXCEPT !.pc = IF ok THEN "ok" ELSE "failed"]
                ELSE calls[c]]
  /\ googleMapsPromise' = IF ok THEN googleMapsPromise ELSE 0
  /\ UNCHANGED apiKey
  /\ UNCHANGED nonLoaderVars

InitLoader == MapIdle /\ VisualIdle /\ StoreIdle /\ RulesIdle /\ StorageIdle /\ LoaderStart /\ ClickIdle /\ AuthIdle /\ ListIdle /\ SubmitIdle

NextLoader ==
  \/ \E c \in Callers : LoadGoogleMaps(c)
  \/ \E l \in 1..MaxLoads, ok \in BOOLEAN : LoadSettles(l, ok)

SpecLoader == InitLoader /\ [][NextLoader]_vars

\* ---------------------------------------------------------- marker click
\* showInfoWindow: with an info window, it is opened on the marker with the
\* dive's content; without one nothing changes.
showInfoWindow(id, marker) ==
  IF ~infoWindow THEN info ELSE {[id |-> id, marker |-> marker]}

\* handleMarkerClick changes no state when the dive is already selected and
\* the sidebar already open; otherwise HomePage renders again.
ClickRenders(id) == selectedDiveId # id \/ ~sidebarOpen

\* A render of HomePage with the list it has: handleMarkerClick is a new
\* function, so createMarker is new and the marker update effect runs; the
\* selection effect runs after it when the selected id changed.
PageRender(id) ==
  /\ nextHandle + Len(diveLogs) <= MaxMarkers + 1
  /\ LET r == MarkerEffect(diveLogs, Refs) IN
       /\ markersRef' = r.st.ref
       /\ markers' = IF id # selectedDiveId
                     THEN HighlightMarkers(r.st.ms, r.st.ref, id) ELSE r.st.ms
       /\ nextHandle' = r.st.next
       /\ fitReq' = IF r.fit = {} THEN fitReq ELSE r.fit
       /\ zoomListeners' = IF r.fit = {} THEN zoomListeners ELSE zoomListeners + 1
       /\ issued' = [pan |-> IF id # selectedDiveId
                             THEN PanCommands(r.st.ms, r.st.ref, id, mapInstance) ELSE <<>>,
                     fit |-> IF r.fit = {} THEN <<>> ELSE <<CHOOSE b \in r.fit : TRUE>>,
                     setZoom |-> <<>>]
  /\ selectedDiveId' = id

\* The click listener of the live marker of dive id, and the render that
\* follows from the state handleMarkerClick set.
Click(id) ==
  /\ mounted /\ id \in DOMAIN markersRef /\ markers[markersRef[id]].map
  /\ notified' = <<id>>
  /\ info' = showInfoWindow(id, markersRef[id])
  /\ sidebarOpen' = TRUE
  /\ IF ClickRenders(id)
     THEN PageRender(id)
     ELSE /\ issued' = NoCommands
          /\ UNCHANGED <<markersRef, markers, nextHandle, fitReq, zoomListeners,
                         selectedDiveId>>
  /\ lastOp' = Op("click", nextHandle' - nextHandle)
  /\ UNCHANGED <<docs, mounted, initPc, isLoading, error, mapInstance, infoWindow,
                 diveLogs, zoom>>
  /\ UNCHANGED nonClickVars

\* The menu button: setSidebarOpen(!sidebarOpen), and the render after it.
ToggleSidebar ==
  /\ mounted /\ initPc # "start"
  /\ sidebarOpen' = ~sidebarOpen
  /\ PageRender(selectedDiveId)
  /\ notified' = <<>>
  /\ lastOp' = Op("toggleSidebar", nextHandle' - nextHandle)
  /\ UNCHANGED info
  /\ UNCHANGED <<docs, mounted, initPc, isLoading, error, mapInstance, infoWindow,
                 diveLogs, zoom>>
  /\ UNCHANGED nonClickVars

\* HomePage gets a list from loadDiveLogs.
PageList(logs) == Reconcile(logs) /\ logs # diveLogs

InitClick ==
  /\ MapIdle /\ VisualIdle /\ StoreIdle /\ RulesIdle /\ StorageIdle /\ LoaderIdle
  /\ ClickIdle /\ AuthIdle /\ ListIdle /\ SubmitIdle

NextClick ==
  \/ \E c \in BOOLEAN : InitMapStart(c)
  \/ \E o \in {"loaded", "rejected", "no_api_key"} : InitMapResume(o)
  \/ \E ids \in IdLists : PageList(LogsOf(ids))
  \/ \E id \in Ids : Click(id)
  \/ ToggleSidebar

SpecClick == InitClick /\ [][NextClick]_vars

\* ------------------------------------------------------------ AuthContext
MaxHandlers == 3

\* The User built from Firebase Auth data, and the one read from Firestore.
AuthUser(uid) == [uid |-> uid, source |-> "auth"]

StoredUser(uid) == [uid |-> uid, source |-> "firestore"]

\* onAuthStateChanged calls the handler with u.  For a user it installs the
\* auth data and waits in getUser; for null it clears currentUser and ends.
AuthStateChanged(u) ==
  /\ u # firebaseUser
  /\ firebaseUser' = u
  /\ IF u # NoUser
     THEN /\ started < MaxHandlers
          /\ currentUser' = {AuthUser(u)}
          /\ handlers' = handlers \cup {[n |-> started + 1, uid |-> u, pc |-> "getUser"]}
          /\ started' = started + 1
          /\ loading' = loading
     ELSE /\ currentUser' = {}
          /\ loading' = FALSE
          /\ UNCHANGED <<handlers, started>>
  /\ UNCHANGED userDocs
  /\ UNCHANGED nonAuthVars

\* getUser of handler h settles: with a profile it is installed; with none
\* the handler goes on to createUser; an error is logged.  The handler ends
\* with setLoading(false) unless it goes on.
GetUserSettles(h, ok) ==
  /\ h \in handlers /\ h.pc = "getUser"
  /\ IF ok /\ h.uid \in userDocs
     THEN /\ currentUser' = {StoredUser(h.uid)}
          /\ handlers' = handlers \ {h}
          /\ loading' = FALSE
     ELSE IF ok
     THEN /\ handlers' = (handlers \ {h}) \cup {[h EXCEPT !.pc = "createUser"]}
          /\ UNCHANGED <<currentUser, loading>>
     ELSE /\ handlers' = handlers \ {h}
          /\ loading' = FALSE
          /\ UNCHANGED currentUser
  /\ UNCHANGED <<firebaseUser, started, userDocs>>
  /\ UNCHANGED nonAuthVars

\* createUser of handler h settles; a failure is logged.
CreateUserSettles(h, ok) ==
  /\ h \in handlers /\ h.pc = "createUser"
  /\ userDocs' = IF ok THEN userDocs \cup {h.uid} ELSE userDocs
  /\ handlers' = handlers \ {h}
  /\ loading' = FALSE
  /\ UNCHANGED <<firebaseUser, currentUser, started>>
  /\ UNCHANGED nonAuthVars

InitAuth == MapIdle /\ VisualIdle /\ StoreIdle /\ RulesIdle /\ StorageIdle /\ LoaderIdle /\ ClickIdle /\ AuthStart /\ ListIdle /\ SubmitIdle

NextAuth ==
  \/ \E u \in Users \cup {NoUser} : AuthStateChanged(u)
  \/ \E h \in handlers, ok \in BOOLEAN : GetUserSettles(h, ok)
  \/ \E h \in handlers, ok \in BOOLEAN : CreateUserSettles(h, ok)

SpecAuth == InitAuth /\ [][NextAuth]_vars

\* ---------------------------------------------------------- loadDiveLogs
MaxListLoads == 3

\* getRecentDiveLogs(100), and getDiveLogs(uid).
AllDives == [mine |-> FALSE, userId |-> NoUser]

DivesOf(uid) == [mine |-> TRUE, userId |-> uid]

\* if (showOnlyMyDives && currentUser) getDiveLogs(currentUser.uid)
\* else getRecentDiveLogs(100)
QueryFor(onlyMine, user) ==
  IF onlyMine /\ user # NoUser THEN DivesOf(user) ELSE AllDives

\* What the query returns, as the page keeps it: id -> userId.
QueryResult(q) ==
  LET hit == {id \in DOMAIN fsDocs : ~q.mine \/ fsDocs[id].userId = q.userId}
  IN [id \in hit |-> fsDocs[id].userId]

Pending(q) == [query |-> q, status |-> "pending"]

\* A collection with dives of two owners.
ListStore ==
  /\ fsDocs = [id \in Ids |-> [userId |-> IF id = "a" THEN "u1" ELSE "u2", photos |-> {}]]
  /\ blobs = {}
  /\ del = NoCall

\* After the first render: the effect has started the first load.
ListStart ==
  /\ showOnlyMyDives = FALSE
  /\ listLoads = <<Pending(AllDives)>>

\* The filter button, shown to a signed-in user: the effect starts a load
\* for the new setting.
ToggleFilter ==
  /\ page.currentUser # NoUser
  /\ Len(listLoads) < MaxListLoads
  /\ showOnlyMyDives' = ~showOnlyMyDives
  /\ listLoads' = Append(listLoads, Pending(QueryFor(~showOnlyMyDives, page.currentUser)))
  /\ UNCHANGED page
  /\ UNCHANGED nonListVars

\* currentUser changes: the effect starts a load.  After a sign-out with
\* the filter on, the reset effect turns it off and the load effect runs
\* once more.
UserChanged(u) ==
  /\ u # page.currentUser
  /\ page' = [page EXCEPT !.currentUser = u]
  /\ IF u = NoUser /\ showOnlyMyDives
     THEN /\ Len(listLoads) + 1 < MaxListLoads
          /\ showOnlyMyDives' = FALSE
          /\ listLoads' = listLoads \o <<Pending(QueryFor(TRUE, u)), Pending(QueryFor(FALSE, u))>>
     ELSE /\ Len(listLoads) < MaxListLoads
          /\ showOnlyMyDives' = showOnlyMyDives
          /\ listLoads' = Append(listLoads, Pending(QueryFor(showOnlyMyDives, u)))
  /\ UNCHANGED nonListVars

\* Load i settles: setDiveLogs(logs) with its result.  On an error
\* getRecentDiveLogs returns [], which is shown; getDiveLogs throws and the
\* list stays.
ListLoadSettles(i, ok) ==
  /\ i \in DOMAIN listLoads /\ listLoads[i].status = "pending"
  /\ listLoads' = [listLoads EXCEPT ![i].status = IF ok THEN "ok" ELSE "failed"]
  /\ page' = [page EXCEPT !.diveLogs =
                 IF ok THEN QueryResult(listLoads[i].query)
                 ELSE IF listLoads[i].query.mine THEN @ ELSE EmptyMap]
  /\ UNCHANGED showOnlyMyDives
  /\ UNCHANGED nonListVars

InitList == MapIdle /\ VisualIdle /\ ListStore /\ RulesIdle /\ StorageIdle /\ LoaderIdle /\ ClickIdle /\ AuthIdle /\ ListStart /\ SubmitIdle

NextList ==
  \/ ToggleFilter
  \/ \E u \in Users \cup {NoUser} : UserChanged(u)
  \/ \E i \in 1..MaxListLoads, ok \in BOOLEAN : ListLoadSettles(i, ok)

SpecList == InitList /\ [][NextList]_vars

\* ----------------------------------------------------------- handleSubmit
\* The form is submitted by a signed-in user with n photos selected; id is
\* the id addDoc will give the document, and the generated file names are
\* new.  With photos uploadPhotos starts every upload; with none the call
\* goes on to createDiveLog.
HandleSubmit(id, user, n) ==
  /\ sub.pc \in {"idle", "done", "failed"} /\ sub.pending = {}
  /\ id \notin DOMAIN fsDocs
  /\ PhotoIdsOf(id, n) \cap blobs = {}
  /\ sub' = [NoSubmit EXCEPT !.pc = IF n > 0 THEN "uploading" ELSE "creating",
                             !.id = id, !.userId = user,
                             !.pending = PhotoIdsOf(id, n)]
  /\ UNCHANGED <<fsDocs, blobs>>
  /\ UNCHANGED nonSubmitVars

\* One uploadPhoto settles: "stored" (uploadBytes and getDownloadURL
\* succeeded), "rejected" (uploadBytes failed) or "no_url" (the object was
\* stored and getDownloadURL failed).  The first failure rejects Promise.all
\* and handleSubmit; the uploads still in flight go on.  When the last one
\* has succeeded the call goes on to createDiveLog.
UploadPhoto(p, outcome) ==
  /\ p \in sub.pending
  /\ LET ok == outcome = "stored"
         left == sub.pending \ {p}
     IN /\ blobs' = IF outcome = "rejected" THEN blobs ELSE blobs \cup {p}
        /\ sub' = [sub EXCEPT !.pending = left,
                              !.photos = IF ok THEN @ \cup {p} ELSE @,
                              !.failed = sub.failed \/ ~ok,
                              !.pc = IF ~ok THEN "failed"
                                     ELSE IF left = {} /\ ~sub.failed THEN "creating"
                                     ELSE sub.pc]
  /\ UNCHANGED fsDocs
  /\ UNCHANGED nonSubmitVars

\* createDiveLog settles: addDoc stored the document with the uploaded
\* photos, or failed.
CreateDiveLog(ok) ==
  /\ sub.pc = "creating"
  /\ IF ok
     THEN /\ fsDocs' = Put(fsDocs, sub.id, [userId |-> sub.userId, photos |-> sub.photos])
          /\ sub' = [sub EXCEPT !.pc = "done"]
     ELSE /\ fsDocs' = fsDocs
          /\ sub' = [sub EXCEPT !.pc = "failed", !.failed = TRUE]
  /\ UNCHANGED blobs
  /\ UNCHANGED nonSubmitVars

InitSubmit == MapIdle /\ VisualIdle /\ StoreIdle /\ RulesIdle /\ StorageIdle /\ LoaderIdle /\ ClickIdle /\ AuthIdle /\ ListIdle /\ SubmitIdle

NextSubmit ==
  \/ \E id \in Ids, user \in Users, n \in 0..MaxDocPhotos : HandleSubmit(id, user, n)
  \/ \E p \in sub.pending, o \in {"stored", "rejected", "no_url"} : UploadPhoto(p, o)
  \/ \E ok \in BOOLEAN : CreateDiveLog(ok)

SpecSubmit == InitSubmit /\ [][NextSubmit]_vars

\* ------------------------------------------------------------------ claims
RecKinds == {"reconcile", "renderBoth"}

Selected == {h \in DOMAIN markers : markers[h].selected}

\* C1: when the marker update effect has run on an initialised map, the ids
\* tracked in markersRef are exactly the ids of the list it was given.
C1_LiveIdsAreListIds ==
  (lastOp.kind \in RecKinds /\ mapInstance) => DOMAIN markersRef = IdsOf(diveLogs)

C1_Witness ==
  /\ lastOp.kind = "reconcile" /\ mapInstance
  /\ Len(diveLogs) = 1 /\ DOMAIN markersRef = {"b"}
  /\ nextHandle = 4 /\ markers[3].rec.id = "b"

\* C2 (as claimed): after the marker update effect every marker attached to
\* the surface is tracked in markersRef, and the surface holds as many
\* markers as the list has distinct ids, also for a list that repeats an id.
C2_NoOrphanMarkers ==
  (lastOp.kind \in RecKinds /\ mapInstance) =>
     /\ Surface \subseteq Live
     /\ Cardinality(Surface) = Cardinality(IdsOf(diveLogs))

\* C3 (as claimed): the marker update effect leaves the marker of an id that
\* is both tracked and in the new list untouched, and a second run on the
\* same list creates no marker.
C3_KeepsCommonMarkers ==
  [][(lastOp'.kind = "reconcile" /\ mapInstance) =>
       /\ \A id \in DOMAIN markersRef \cap IdsOf(diveLogs') :
            id \in DOMAIN markersRef' /\ markersRef'[id] = markersRef[id]
       /\ (diveLogs' = diveLogs /\ DOMAIN markersRef = IdsOf(diveLogs)) =>
            lastOp'.created = 0]_vars

\* C3 (amended): the marker update effect detaches and forgets every tracked
\* marker and creates one new marker per element of the new list, also for
\* ids that were tracked; run again on the same list it leaves the same set
\* of tracked ids and creates Len(list) markers again.
C3_RecreatesAllMarkers ==
  [][(lastOp'.kind = "reconcile" /\ mapInstance) =>
       /\ \A h \in Live : h \notin Live' /\ h \notin Surface'
       /\ lastOp'.created = Len(diveLogs')
       /\ (diveLogs' = diveLogs /\ DOMAIN markersRef = IdsOf(diveLogs)) =>
            DOMAIN markersRef' = DOMAIN markersRef]_vars

C3_Witness ==
  /\ lastOp.kind = "reconcile" /\ lastOp.created = 1
  /\ IdsOf(diveLogs) = {"a"}
  /\ Live = {3} /\ Surface = {3}

\* C4: at most one tracked marker has the selected content.
C4_AtMostOneSelected == Cardinality(Selected \cap Live) <= 1

C4_Witness ==
  /\ lastOp.kind = "setSelected"
  /\ Cardinality(Live) = 2
  /\ Cardinality(Selected \cap Live) = 1

\* C5: after the selection effect has run for an id that has no tracked
\* marker, no marker has the selected content and no panTo was issued.
C5_AbsentIdClearsSelection ==
  (lastOp.kind \in {"setSelected", "renderBoth"} /\ selectedDiveId \notin DOMAIN markersRef) =>
     Selected = {} /\ issued.pan = <<>>

C5_Witness ==
  /\ lastOp.kind = "setSelected"
  /\ selectedDiveId = "b" /\ DOMAIN markersRef = {"a"}

C7_FitCoversAllAndZoomCapped ==
  /\ (lastOp.kind \in RecKinds /\ mapInstance /\ diveLogs # <<>>) =>
        /\ Len(issued.fit) = 1
        /\ \A i \in 1..Len(diveLogs) : Contains(issued.fit[1], Location(diveLogs[i]))
  /\ zoom <= MaxZoom

C7_Witness ==
  /\ lastOp.kind = "boundsChanged"
  /\ issued.setZoom = <<MaxZoom>>
  /\ Len(diveLogs) = 2
  /\ Location(diveLogs[1]) = Location(diveLogs[2])
  /\ zoom = MaxZoom

\* C8: the marker update effect on the empty list detaches every marker it
\* tracked, leaves markersRef empty and issues no fitBounds.
C8_EmptyListClears ==
  [][(lastOp'.kind = "reconcile" /\ diveLogs' = <<>>) =>
       /\ markersRef' = EmptyMap
       /\ Live \cap Surface' = {}
       /\ issued'.fit = <<>>]_vars

C8_Witness ==
  /\ lastOp.kind = "reconcile" /\ diveLogs = <<>>
  /\ mapInstance /\ nextHandle = 3 /\ markers = EmptyMap

\* C9 (as claimed): once the component has left the tree no marker is
\* tracked, no marker is attached to a surface and the map is released.
C9_DisposeReleasesAll ==
  ~mounted => markersRef = EmptyMap /\ Surface = {}

\* C10: once initialisation has failed a failure message is shown and, for
\* every later change of the list or of the selected id, no marker exists
\* and no surface command is issued.
C10_FailedInitDoesNothing ==
  initPc = "failed" =>
     /\ mounted => error # ""
     /\ ~mapInstance
     /\ markersRef = EmptyMap /\ markers = EmptyMap
     /\ issued = NoCommands

C10_Witness ==
  /\ initPc = "failed" /\ error = "Failed to load map"
  /\ lastOp.kind = "renderBoth"
  /\ diveLogs # <<>> /\ selectedDiveId \in IdsOf(diveLogs)

C12_StaleInitIsSilent ==
  (~mounted /\ lastOp.kind \in {"initMapResume", "initMapCatch"}) =>
     /\ ~mapInstance /\ markers = EmptyMap
     /\ lastOp.kind # "initMapCatch"
     /\ error = ""

\* C19 (as claimed): when initMap has completed, the tracked ids are the ids
\* of the list the component was last rendered with.
C19_MarkersAfterInit ==
  (lastOp.kind = "initMapResume" /\ initPc = "ready") =>
     DOMAIN markersRef = IdsOf(diveLogs)

\* C20 (as claimed): whenever the selected id has a tracked marker, that
\* marker has the selected content.
C20_SelectedMarkerHighlighted ==
  (selectedDiveId # NoId /\ selectedDiveId \in DOMAIN markersRef) =>
     markers[markersRef[selectedDiveId]].selected

\* C13: the element createMarkerContent builds is determined by the dive's
\* photos and the flag: with a photo it shows the first photo, and a count
\* badge exactly when there is more than one; without a photo it shows the
\* default icon; selected it is 60 wide with a coloured border and a ring,
\* unselected 50 wide with a white border and no ring.  Building it changes
\* nothing of the map.
C13_ContentByPhotosAndFlag ==
  [][\A c \in visual'.content :
       LET n == Len(visual'.photos) IN
         /\ n >= 1 => /\ c.img = <<visual'.photos[1]>>
                      /\ ~c.icon
                      /\ (n > 1 => c.badge = <<n>>)
                      /\ (n = 1 => c.badge = <<>>)
         /\ n = 0 => (c.icon /\ c.img = <<>> /\ c.badge = <<>>)
         /\ visual'.isSelected =>
              (c.size = SelectedSize /\ c.borderColor # "#FFFFFF" /\ c.ring)
         /\ ~visual'.isSelected =>
              (c.size = UnselectedSize /\ c.borderColor = "#FFFFFF" /\ ~c.ring)
         /\ SelectedSize > UnselectedSize
         /\ visual'.photos = visual.photos
         /\ UNCHANGED mapVars]_vars

C13_Witness ==
  /\ Len(visual.photos) = 1 /\ visual.isSelected
  /\ \E c \in visual.content : c.img = <<"p2">> /\ c.badge = <<>> /\ c.size = SelectedSize

\* C14: the step that completes deleteDiveLog(id) removes the document; at
\* that step every photo the document references is already gone from the
\* blob store, and so is every photo the call read.
C14_DeleteCascades ==
  [][(del'.pc = "done" /\ del.pc # "done") =>
       /\ del.id \notin DOMAIN fsDocs'
       /\ del.id \in DOMAIN fsDocs => fsDocs[del.id].photos \cap blobs = {}
       /\ del.photos \cap blobs' = {}]_vars

C14_Witness ==
  /\ del.pc = "done" /\ del.id = "a"
  /\ Cardinality(del.photos) = 2
  /\ "a" \notin DOMAIN fsDocs /\ "b" \in DOMAIN fsDocs
  /\ blobs = AllPhotos(fsDocs) /\ blobs # {}

\* C15: a document appears only by a create request of a signed-in user whose
\* uid is the new document's userId; a document changes or disappears only by
\* a request of the signed-in user whose uid is the stored userId; and the
\* page offers the delete button only to the user its record of the selected
\* dive names as owner.
C15_OwnerOnlyWrites ==
  [][/\ \A id \in Ids :
          /\ (id \notin DOMAIN fsDocs /\ id \in DOMAIN fsDocs') =>
                /\ req'.op = "create" /\ req'.id = id /\ req'.permitted
                /\ req'.auth \in Users /\ req'.auth = fsDocs'[id].userId
          /\ (id \in DOMAIN fsDocs /\ (id \notin DOMAIN fsDocs' \/ fsDocs'[id] # fsDocs[id])) =>
                /\ req'.op \in {"update", "delete"} /\ req'.id = id /\ req'.permitted
                /\ req'.auth \in Users /\ req'.auth = fsDocs[id].userId
     /\ DeleteOffered' =>
          /\ page'.currentUser \in Users
          /\ page'.currentUser = page'.diveLogs[page'.selectedDiveId]]_vars

C15_Witness ==
  /\ req.op = "delete" /\ req.permitted /\ req.auth = "u2" /\ req.id = "a"
  /\ "a" \notin DOMAIN fsDocs /\ "b" \in DOMAIN fsDocs
  /\ page.currentUser = "u2" /\ page.selectedDiveId = NoId
  /\ DOMAIN page.diveLogs = {"b"}

\* C16: every write the storage rules permit is made by the signed-in user
\* the folder belongs to and is an upload under the size limit whose content
\* type is an image type.
C16_PermittedWritesAreValid ==
  sreq.permitted =>
     /\ sreq.auth \in Users /\ sreq.auth = sreq.userId
     /\ \E f \in sreq.resource : f.size < SizeLimit /\ MatchesImage(f.contentType)

\* C17: every load but the last has failed, so no load starts while one is
\* pending or has succeeded; a caller waits on, or holds the outcome of, the
\* load it was given; a failed load is never cached, and a call made with
\* the cache empty and a key configured starts a fresh load; with no key no
\* load is ever started or cached and every call fails.
C17_OneLoadAtATime ==
  [][/\ \A l \in DOMAIN loads' : l < Len(loads') => loads'[l] = "failed"
     /\ googleMapsPromise' # 0 =>
          /\ googleMapsPromise' = Len(loads')
          /\ loads'[googleMapsPromise'] \in {"pending", "ok"}
     /\ (Len(loads') > 0 /\ loads'[Len(loads')] # "failed") => googleMapsPromise' = Len(loads')
     /\ \A c \in Callers :
          /\ calls'[c].pc = "waiting" =>
               calls'[c].load = googleMapsPromise' /\ loads'[calls'[c].load] = "pending"
          /\ (calls'[c].pc \in {"ok", "failed"} /\ calls'[c].load # 0) =>
               loads'[calls'[c].load] = calls'[c].pc
          /\ (calls'[c] # calls[c] /\ calls[c].pc # "waiting") =>
               IF googleMapsPromise # 0
               THEN calls'[c].load = googleMapsPromise /\ loads' = loads
               ELSE IF apiKey
               THEN loads' = Append(loads, "pending") /\ calls'[c].load = Len(loads')
               ELSE calls'[c] = [pc |-> "failed", load |-> 0]
     /\ ~apiKey' => (loads' = <<>> /\ googleMapsPromise' = 0)]_vars

C17_Witness ==
  /\ loads = <<"failed", "ok">> /\ googleMapsPromise = 2
  /\ \A c \in Callers : calls[c] = [pc |-> "ok", load |-> 2]

\* C18: after a click on the live marker of dive d and the render it causes,
\* onMarkerClick was called exactly once, with d; the selected id is d.id;
\* and the info window shows d on a marker that is still tracked and attached.
C18_ClickSelectsAndAnchors ==
  lastOp.kind = "click" =>
     /\ notified = <<selectedDiveId>>
     /\ \E i \in info :
          /\ i.id = selectedDiveId
          /\ i.marker \in Live
          /\ i.id \in DOMAIN markersRef /\ markersRef[i.id] = i.marker

\* C23: when deleteDiveLog has failed, every document still in the store
\* references only photos that are still in the blob store.
C23_FailedDeleteChangesNothing ==
  del.pc = "failed" =>
     \A id \in DOMAIN fsDocs : fsDocs[id].photos \subseteq blobs

\* C26: a deleteDiveLog(id) that follows a failed deleteDiveLog(id) and
\* meets no fault in either store ends successfully with the document gone.
C26_RetrySucceeds ==
  (/\ del.retryOf = del.id /\ del.id # NoId
   /\ ~del.faulted
   /\ del.pc \in {"done", "failed"} /\ del.pending = {}) =>
     (del.pc = "done" /\ del.id \notin DOMAIN fsDocs)

\* C25: no step changes the userId of a document that exists before and
\* after it, so every document keeps the userId it was created with.
C25_OwnerNeverChanges ==
  [][\A id \in DOMAIN fsDocs \cap DOMAIN fsDocs' :
        fsDocs'[id].userId = fsDocs[id].userId]_vars

\* C22: once the provider has reported a sign-out and no auth-state handler
\* is waiting any more, currentUser is null.
C22_SignedOutMeansNoUser ==
  (firebaseUser = NoUser /\ handlers = {} /\ started > 0) => currentUser = {}

\* C21: when no load of the dive list is pending and every load succeeded,
\* the list shown is the result of the last load started, the one for the
\* latest filter setting and user.
C21_LatestLoadWins ==
  (/\ Len(listLoads) > 0
   /\ \A i \in DOMAIN listLoads : listLoads[i].status = "ok") =>
     /\ listLoads[Len(listLoads)].query = QueryFor(showOnlyMyDives, page.currentUser)
     /\ page.diveLogs = QueryResult(QueryFor(showOnlyMyDives, page.currentUser))

\* C24: when handleSubmit has failed and none of its uploads is in flight,
\* every object of the blob store is a photo of some stored dive log.
C24_FailedSubmitLeavesNoBlob ==
  (sub.pc = "failed" /\ sub.pending = {}) => blobs \subseteq AllPhotos(fsDocs)

====
